---- MODULE Spec2Model ----
(***************************************************************************)
(* django-ratelimit (fork with lockout): ratelimit/utils.py                *)
(*                                                                         *)
(* Strings are sequences of one-character strings, so that formatting,     *)
(* parsing and concatenation are computed character by character.          *)
(* Optional values (Python None) are sets: {} is None, {v} is the value v. *)
(* The source is Python 2 (print statement at utils.py:194): None compares *)
(* below every integer, and zlib.crc32 is a signed 32-bit integer.         *)
(***************************************************************************)
EXTENDS Integers, Sequences, FiniteSets, TLC

VARIABLES
    now,      \* the wall clock, in whole seconds (time.time())
    cache,    \* the cache backend: key -> entry
    limited,  \* request.limited of the current request object
    cfg,      \* the arguments and settings the evaluations are made with
    last,     \* what the most recent is_ratelimited evaluation did
    nEvals,   \* number of evaluations made
    pureLen,  \* length of the prefix of counting, incrementing, same-window evaluations
    armed,    \* the most recent lock arming with a non-zero duration
    pc,       \* concurrent get_usage_count callers: position of each
    ret,      \* concurrent get_usage_count callers: count each returned
    arg,      \* input of a pure-function call
    out       \* result of a pure-function call

vars == <<now, cache, limited, cfg, last, nEvals, pureLen, armed, pc, ret, arg, out>>

----------------------------------------------------------------------------
(* Bounds of the model *)

MaxTime == 4
MaxEvals == 3
MaxLimit == 1
MaxLock == 2
MaxProcs == 3
MaxPeriod == 4

----------------------------------------------------------------------------
(* Characters and strings *)

UpperCase == <<"A","B","C","D","E","F","G","H","I","J","K","L","M",
               "N","O","P","Q","R","S","T","U","V","W","X","Y","Z">>
LowerCase == <<"a","b","c","d","e","f","g","h","i","j","k","l","m",
               "n","o","p","q","r","s","t","u","v","w","x","y","z">>
DigitChars == <<"0","1","2","3","4","5","6","7","8","9">>

Range(s) == {s[i] : i \in 1..Len(s)}

IndexOf(c, s) == CHOOSE i \in 1..Len(s) : s[i] = c

Digits == Range(DigitChars)
UpperSet == Range(UpperCase)
LowerSet == Range(LowerCase)

IsDigit(c) == c \in Digits

\* ord(c) for the characters the model uses (ASCII)
Ord(c) ==
    IF c \in UpperSet THEN 64 + IndexOf(c, UpperCase)
    ELSE IF c \in LowerSet THEN 96 + IndexOf(c, LowerCase)
    ELSE IF IsDigit(c) THEN 47 + IndexOf(c, DigitChars)
    ELSE IF c = "/" THEN 47
    ELSE IF c = ":" THEN 58
    ELSE IF c = "." THEN 46
    ELSE 32

\* str.upper()
UpperChar(c) == IF c \in LowerSet THEN UpperCase[IndexOf(c, LowerCase)] ELSE c
Upper(s) == [i \in 1..Len(s) |-> UpperChar(s[i])]

\* str.lower()
LowerChar(c) == IF c \in UpperSet THEN LowerCase[IndexOf(c, UpperCase)] ELSE c
Lower(s) == [i \in 1..Len(s) |-> LowerChar(s[i])]

\* Python 2 byte-string ordering: lexicographic on ord
RECURSIVE StrLess(_, _)
StrLess(a, b) ==
    IF b = <<>> THEN FALSE
    ELSE IF a = <<>> THEN TRUE
    ELSE IF Ord(Head(a)) # Ord(Head(b)) THEN Ord(Head(a)) < Ord(Head(b))
    ELSE StrLess(Tail(a), Tail(b))

\* sorted(list of strings)
RECURSIVE Insert(_, _)
Insert(x, l) ==
    IF l = <<>> THEN <<x>>
    ELSE IF StrLess(Head(l), x) THEN <<Head(l)>> \o Insert(x, Tail(l))
    ELSE <<x>> \o l
RECURSIVE Sorted(_)
Sorted(l) == IF l = <<>> THEN <<>> ELSE Insert(Head(l), Sorted(Tail(l)))

\* ''.join(list of strings)
RECURSIVE Join(_)
Join(l) == IF l = <<>> THEN <<>> ELSE Head(l) \o Join(Tail(l))

\* '%d' % n  and  str(n)
RECURSIVE IntToStr(_)
IntToStr(n) ==
    IF n < 0 THEN <<"-">> \o IntToStr(0 - n)
    ELSE IF n < 10 THEN <<DigitChars[n + 1]>>
    ELSE IntToStr(n \div 10) \o <<DigitChars[(n % 10) + 1]>>

\* int(s) for a string of decimal digits
RECURSIVE StrToInt(_)
StrToInt(s) ==
    IF s = <<>> THEN 0
    ELSE 10 * StrToInt(SubSeq(s, 1, Len(s) - 1)) + (IndexOf(s[Len(s)], DigitChars) - 1)

\* length of the longest prefix of s matching [\d]*
RECURSIVE DigitPrefixLen(_)
DigitPrefixLen(s) ==
    IF s = <<>> \/ ~IsDigit(Head(s)) THEN 0 ELSE 1 + DigitPrefixLen(Tail(s))

----------------------------------------------------------------------------
(* Rate and lock-duration parsing *)

\* _PERIODS
PeriodUnits == {"s", "m", "h", "d"}
PERIODS(u) ==
    CASE u = "s" -> 1
      [] u = "m" -> 60
      [] u = "h" -> 60 * 60
      [] u = "d" -> 24 * 60 * 60

EXPIRATION_FUDGE == 5

\* rate_re.match(s): ([\d]+)/([\d]*)([smhd])? anchored at the start only.
\* The groups are strings; an unmatched optional group is <<>> (None).
RateReMatch(s) ==
    LET n1 == DigitPrefixLen(s) IN
    IF n1 = 0 \/ Len(s) < n1 + 1 \/ s[n1 + 1] # "/"
    THEN [matched |-> FALSE, count |-> <<>>, multi |-> <<>>, period |-> <<>>]
    ELSE LET rest == SubSeq(s, n1 + 2, Len(s))
             n2 == DigitPrefixLen(rest)
             unit == IF Len(rest) > n2 /\ rest[n2 + 1] \in PeriodUnits
                     THEN <<rest[n2 + 1]>> ELSE <<>>
         IN [matched |-> TRUE, count |-> SubSeq(s, 1, n1),
             multi |-> SubSeq(rest, 1, n2), period |-> unit]

\* fl_re.match(s): ([\d]*)([smhd])? anchored at the start only; always matches.
FlReMatch(s) ==
    LET n == DigitPrefixLen(s)
        unit == IF Len(s) > n /\ s[n + 1] \in PeriodUnits THEN <<s[n + 1]>> ELSE <<>>
    IN [multi |-> SubSeq(s, 1, n), period |-> unit]

\* (variant: the multiplier is dropped)
SecondsMissingMulti(multi, period) ==
    PERIODS(Lower(IF period = <<>> THEN <<"s">> ELSE period)[1])
\* seconds = _PERIODS[period.lower()]; if multi: seconds = seconds * int(multi)
Seconds(multi, period) ==
    LET unit == Lower(IF period = <<>> THEN <<"s">> ELSE period)[1]
        seconds == PERIODS(unit)
    IN IF multi # <<>> THEN seconds * StrToInt(multi) ELSE seconds

\* _calculate_lock_duration(fl)
CalculateLockDuration(fl) ==
    LET m == FlReMatch(fl) IN Seconds(m.multi, m.period)

\* A rate argument: a (count, period) tuple, or a string.
TupleRate(c, p) == [kind |-> "tuple", count |-> c, period |-> p, s |-> <<>>]
StrRate(str) == [kind |-> "str", count |-> 0, period |-> 0, s |-> str]

\* _split_rate(rate): err is "" when a pair is returned, else the exception raised
\* (rate_re.match returns None and None.groups() raises AttributeError).
SplitRate(rate) ==
    IF rate.kind = "tuple"
    THEN [err |-> "", count |-> rate.count, seconds |-> rate.period]
    ELSE LET m == RateReMatch(rate.s) IN
         IF ~m.matched
         THEN [err |-> "AttributeError", count |-> 0, seconds |-> 0]
         ELSE [err |-> "", count |-> StrToInt(m.count),
               seconds |-> Seconds(m.multi, m.period)]

----------------------------------------------------------------------------
(* Window *)

\* Identifier values the model uses, and zlib.crc32 of each as Python 2
\* returns it (signed 32-bit).
IdU1 == <<"u", "1">>
IdU3 == <<"u", "3">>
IdC == <<"c">>
IdU == <<"u">>
Identifiers == {IdU1, IdU3, IdC}
Crc32(value) ==
    CASE value = IdU1 -> 1112514422
      [] value = IdU3 -> -1404961190
      [] value = IdC -> 112844655
      [] value = IdU -> -227710402
      [] OTHER -> 0

\* Python's % : the result has the sign of the (positive) divisor
PyMod(a, b) == ((a % b) + b) % b

\* (variant: the advance by one period when w < ts is left out)
GetWindowNoAdvance(value, period, ts) ==
    IF period = 1 THEN ts
    ELSE ts - PyMod(ts, period) + PyMod(Crc32(value), period)
\* _get_window(value, period) with time.time() = ts
GetWindow(value, period, ts) ==
    IF period = 1 THEN ts
    ELSE LET w == ts - PyMod(ts, period) + PyMod(Crc32(value), period)
         IN IF w < ts THEN w + period ELSE w

----------------------------------------------------------------------------
(* Cache keys *)

\* A method filter: ALL, a single method name, or a list of names.
MethodAll == [kind |-> "ALL", names |-> <<>>]
MethodStr(m) == [kind |-> "str", names |-> <<m>>]
MethodList(l) == [kind |-> "list", names |-> l]

\* (variant: the filter is not applied)
MethodMatchAny(reqMethod, method) == TRUE
\* _method_match(request, method)
MethodMatch(reqMethod, method) ==
    IF method.kind = "ALL" THEN TRUE
    ELSE reqMethod \in {Upper(method.names[i]) : i \in 1..Len(method.names)}

\* the token _make_cache_key appends for the methods argument
MethodToken(methods) ==
    IF methods.kind = "ALL" THEN <<>>
    ELSE IF methods.kind = "list"
    THEN Join(Sorted([i \in 1..Len(methods.names) |-> Upper(methods.names[i])]))
    ELSE methods.names[1]

\* hashlib.md5(...).hexdigest(): a digest cannot be computed here; it is taken
\* to be injective, so a key is identified with the string that is digested.
Md5HexDigest(s) == s

\* getattr(settings, 'RATELIMIT_CACHE_PREFIX', 'rl:')
CachePrefix == <<"r", "l", ":">>

\* _make_cache_key(group, rate, value, methods, use_window) with time.time() = ts
\* (rate is one that _split_rate parses)
MakeCacheKey(group, rate, value, methods, use_window, ts) ==
    LET r == SplitRate(rate)
        safe_rate == IntToStr(r.count) \o <<"/">> \o IntToStr(r.seconds) \o <<"s">>
        parts == IF use_window
                 THEN <<group \o safe_rate, value,
                        IntToStr(GetWindow(value, r.seconds, ts))>>
                 ELSE <<group \o safe_rate, value>>
    IN CachePrefix \o Md5HexDigest(Join(parts \o <<MethodToken(methods)>>))

----------------------------------------------------------------------------
(* The cache backend (django.core.cache): add, incr, get, set *)

NoEntry == [kind |-> "absent", n |-> 0, blocked |-> FALSE, block_window |-> {}, expires |-> {}]
IntEntry(n, exp) == [kind |-> "int", n |-> n, blocked |-> FALSE, block_window |-> {}, expires |-> exp]
NoneEntry == [kind |-> "none", n |-> 0, blocked |-> FALSE, block_window |-> {}, expires |-> {}]
LockEntry(bw) == [kind |-> "lock", n |-> 0, blocked |-> TRUE, block_window |-> bw, expires |-> {}]

\* the key holds an entry that has not expired at time ts
Live(c, key, ts) ==
    key \in DOMAIN c /\ \A e \in c[key].expires : ts < e

Store(c, key, entry) == (key :> entry) @@ c

\* (variant: a plain set where create-if-absent is needed)
CacheAddOverwrites(c, key, value, timeout, ts) ==
    [cache |-> Store(c, key, IntEntry(value, {ts + timeout})), added |-> TRUE]
\* cache.add(key, value, timeout): create-if-absent, atomic
CacheAdd(c, key, value, timeout, ts) ==
    IF Live(c, key, ts)
    THEN [cache |-> c, added |-> FALSE]
    ELSE [cache |-> Store(c, key, IntEntry(value, {ts + timeout})), added |-> TRUE]

\* cache.incr(key): atomic; ValueError when the key is missing or not a number
CacheIncr(c, key, ts) ==
    IF Live(c, key, ts) /\ c[key].kind = "int"
    THEN [cache |-> [c EXCEPT ![key].n = @ + 1], err |-> "", value |-> {c[key].n + 1}]
    ELSE [cache |-> c, err |-> "ValueError", value |-> {}]

\* cache.get(key): the entry, or NoEntry (None) when missing
CacheGet(c, key, ts) == IF Live(c, key, ts) THEN c[key] ELSE NoEntry

\* cache.set(key, value): no timeout is given, the entry lives for the
\* backend's default timeout, which the model takes to outlast MaxTime
CacheSet(c, key, entry) == Store(c, key, entry)

----------------------------------------------------------------------------
(* get_usage_count *)

\* What the backend does on the read of an existing counter:
\*   "none"       works
\*   "incr_none"  cache.incr returns None instead of a number (nothing stored)
\*   "get_none"   cache.get returns None instead of the value
\*   "vanish"     the key, present at cache.add, is gone (expired or evicted)
\*                when the read is made
Faults == {"incr_none", "get_none", "vanish"}

\* the cache without the key
Drop(c, key) == [k \in DOMAIN c \ {key} |-> c[k]]

\* the cache as the read after cache.add finds it
Seen(c, key, fault) == IF fault = "vanish" THEN Drop(c, key) ELSE c

\* what cache.get gives for a stored counter value: the number, or None when
\* None is what the key holds
StoredCount(entry) == IF entry.kind = "int" THEN {entry.n} ELSE {}

\* (variant: the ValueError is not caught for a fallback, no count results)
IncrCountNoFallback(i, initial_value) == i.value
\* "try: count = cache.incr(cache_key) except ValueError: count = initial_value"
IncrCount(i, initial_value) ==
    IF i.err = "ValueError" THEN {initial_value} ELSE i.value

Op(name, key) == [op |-> name, key |-> key]

InitialValue(increment) == IF increment THEN 1 ELSE 0

\* (variant: the margin is left out)
CounterTimeoutNoFudge(period) == period
\* the timeout cache.add is given: period + EXPIRATION_FUDGE
CounterTimeout(period) == period + EXPIRATION_FUDGE

\* utils.py:233-243: the count, once cache.add has answered
CountAfterAdd(c, r, cache_key, added, time_left, increment, ts, fault) ==
    LET initial_value == InitialValue(increment) IN
    IF added.added
    THEN [cache |-> added.cache, count |-> {initial_value}, limit |-> r.count,
          time_left |-> time_left, ops |-> <<Op("add", cache_key)>>]
    ELSE IF increment
    THEN LET i == IF fault = "incr_none"
                  THEN [cache |-> c, err |-> "", value |-> {}]
                  ELSE CacheIncr(Seen(c, cache_key, fault), cache_key, ts)
         IN [cache |-> i.cache,
             count |-> IncrCount(i, initial_value),
             limit |-> r.count, time_left |-> time_left,
             ops |-> <<Op("add", cache_key), Op("incr", cache_key)>>]
    ELSE [cache |-> Seen(c, cache_key, fault),
          count |-> IF fault = "get_none" THEN {}
                    ELSE IF Live(Seen(c, cache_key, fault), cache_key, ts)
                    THEN StoredCount(c[cache_key])
                    ELSE {initial_value},
          limit |-> r.count, time_left |-> time_left,
          ops |-> <<Op("add", cache_key), Op("get", cache_key)>>]

\* utils.py:230-232: time_left, initial_value and the cache.add
CountWithKey(c, r, cache_key, value, increment, ts, fault) ==
    CountAfterAdd(c, r, cache_key,
                  CacheAdd(c, cache_key, InitialValue(increment),
                           CounterTimeout(r.seconds), ts),
                  GetWindow(value, r.seconds, ts) - ts, increment, ts, fault)

\* get_usage_count(request, group, fn, key, rate, method, increment) with
\* key_to_value(...) = value and time.time() = ts
GetUsageCount(c, group, rate, value, method, increment, ts, fault) ==
    CountWithKey(c, SplitRate(rate),
                 MakeCacheKey(group, rate, value, method, TRUE, ts),
                 value, increment, ts, fault)

----------------------------------------------------------------------------
(* is_ratelimited *)

\* Python truth value of an optional number
Truthy(v) == v # {} /\ v # {0}

\* (variant: the test on block_window being set is left out)
LockedWithoutUntil(lock_info, ts) ==
    lock_info.kind = "lock" /\ lock_info.blocked
        /\ \A bw \in lock_info.block_window : ts < bw
\* "if lock_info: ... if blocked and block_window and ts < block_window"
Locked(lock_info, ts) ==
    lock_info.kind = "lock" /\ lock_info.blocked /\ Truthy(lock_info.block_window)
        /\ \A bw \in lock_info.block_window : ts < bw

\* (variant: == limit + 1 in place of > limit)
ExceedsByOne(count, limit) == \E n \in count : n = limit + 1
\* (variant: >= in place of >)
ExceedsOrEqual(count, limit) == \E n \in count : n >= limit
\* Python 2 "usage_count > usage_limit": None is smaller than every number
Exceeds(count, limit) == \E n \in count : n > limit

\* (variant: the fail-open setting is read the wrong way round)
LimitedFailOpenInverted(count, limit, fail_open) ==
    IF count = {} THEN fail_open ELSE Exceeds(count, limit)
\* "limited = not fail_open" when the count is None, else "count > limit"
Limited(count, limit, fail_open) ==
    IF count = {} THEN ~fail_open ELSE Exceeds(count, limit)

\* (variant: the duration is not added)
BlockWindowNoDuration(ts, lock_for) == IF lock_for # 0 THEN {ts} ELSE {}
\* 'block_window': ts + lock_for if lock_for else None
BlockWindow(ts, lock_for) == IF lock_for # 0 THEN {ts + lock_for} ELSE {}

\* (variant: use_window=False is left out)
LockKeyWindowed(group, rate, value, method, ts) ==
    MakeCacheKey(group, rate, value, method, TRUE, ts)
\* the window-independent key of the lock entry (utils.py:155)
LockKey(group, rate, value, method, ts) ==
    MakeCacheKey(group, rate, value, method, FALSE, ts)

\* What a call returns: a value, or the exception it raises.
Returns(c, lim, b, path, count, limit, ops) ==
    [cache |-> c, limited |-> lim, err |-> "", value |-> b, path |-> path,
     count |-> count, limit |-> limit, ops |-> ops]
Raises(c, lim, e) ==
    [cache |-> c, limited |-> lim, err |-> e, value |-> FALSE, path |-> "raised",
     count |-> {}, limit |-> 0, ops |-> <<>>]

\* utils.py:174-197: the verdict and the lock write, from the usage
Decide(lim, cache_key, lock_for, usage, fail_open, increment, ts, getop) ==
    LET old_limited == lim
        is_limited == Limited(usage.count, usage.limit, fail_open)
        entry == IF Exceeds(usage.count, usage.limit)
                 THEN LockEntry(BlockWindow(ts, lock_for))
                 ELSE NoneEntry
    IN Returns(CacheSet(usage.cache, cache_key, entry),
               IF increment THEN (old_limited \/ is_limited) ELSE lim,
               is_limited, "counted", usage.count, usage.limit,
               getop \o usage.ops \o <<Op("set", cache_key)>>)

\* utils.py:157-171: the lock entry is read; a live lock ends the call
CheckLock(c, lim, a, rate, lock_for, cache_key, fail_open, increment, ts, fault) ==
    LET lock_info == CacheGet(c, cache_key, ts) IN
    IF lock_info.kind = "int" /\ lock_info.n # 0 THEN Raises(c, lim, "TypeError")
    ELSE IF Locked(lock_info, ts)
    THEN Returns(c, lim, TRUE, "locked", {}, 0, <<Op("get", cache_key)>>)
    ELSE IF SplitRate(rate).seconds = 0 THEN Raises(c, lim, "ZeroDivisionError")
    ELSE Decide(lim, cache_key, lock_for,
                GetUsageCount(c, a.group, rate, a.value, a.method, increment, ts, fault),
                fail_open, increment, ts, <<Op("get", cache_key)>>)

\* utils.py:149-155: the rate is parsed for the lock key
WithRate(c, lim, a, rate, lock_for, fail_open, increment, ts, fault) ==
    IF SplitRate(rate).err # "" THEN Raises(c, lim, SplitRate(rate).err)
    ELSE CheckLock(c, lim, a, rate, lock_for,
                   LockKey(a.group, rate, a.value, a.method, ts),
                   fail_open, increment, ts, fault)

\* (variant: the flag is left as it was)
DisabledKeepsFlag(c, lim) == Returns(c, lim, FALSE, "disabled", {}, 0, <<>>)
\* utils.py:133-135: "request.limited = False; return False"
Disabled(c, lim) == Returns(c, FALSE, FALSE, "disabled", {}, 0, <<>>)

\* is_ratelimited(request, group, fn, key, rate, method, increment, lock_for)
\*   c, lim       the cache and request.limited before the call
\*   a            the arguments: group, rate (optional), value (what
\*                key_to_value returns), method, lock_for (optional string)
\*   enable, fail_open   settings.RATELIMIT_ENABLE, settings.RATELIMIT_FAIL_OPEN
\*   reqMethod    request.method
\*   ts           time.time()
\*   fault        what the backend does on the counter read
IsRatelimited(c, lim, a, enable, fail_open, reqMethod, increment, ts, fault) ==
    IF a.lock_for = {} THEN Raises(c, lim, "ImproperlyConfigured")
    ELSE IF ~enable THEN Disabled(c, lim)
    ELSE IF ~MethodMatch(reqMethod, a.method)
    THEN Returns(c, lim, FALSE, "nomatch", {}, 0, <<>>)
    ELSE IF a.rate = {} THEN Returns(c, lim, FALSE, "norate", {}, 0, <<>>)
    ELSE WithRate(c, lim, a, CHOOSE r \in a.rate : TRUE,
                  CalculateLockDuration(CHOOSE f \in a.lock_for : TRUE),
                  fail_open, increment, ts, fault)

----------------------------------------------------------------------------
(* Sequential evaluations of one (group, rate, identifier, method filter) *)

Get == <<"G", "E", "T">>
Post == <<"P", "O", "S", "T">>
LowerPost == <<"p", "o", "s", "t">>
ReqMethods == {Get, Post}

GroupG == <<"g">>
GroupG1 == <<"g", "1">>

CfgPeriods == {1, 2}
RateString(limit, period) ==
    StrRate(IntToStr(limit) \o <<"/">> \o IntToStr(period) \o <<"s">>)
CfgRates == {RateString(l, p) : l \in 0..MaxLimit, p \in CfgPeriods}
CfgLocks == {IntToStr(d) \o <<"s">> : d \in 0..MaxLock}
CfgMethods == {MethodList(<<LowerPost>>)}
CfgValues == {IdU1}

Args(group, rate, value, method, lock_for) ==
    [group |-> group, rate |-> rate, value |-> value, method |-> method,
     lock_for |-> lock_for]

NoArgs == Args(<<>>, {}, <<>>, MethodAll, {})

NoEval ==
    [idx |-> 0, ts |-> 0, window |-> 0, increment |-> FALSE, inScope |-> FALSE,
     fault |-> "none", fail_open |-> FALSE, lock_for |-> 0,
     path |-> "none", err |-> "", value |-> FALSE, count |-> {}, limit |-> 0,
     ops |-> <<>>, cacheSame |-> TRUE, lockBefore |-> NoEntry, armedBefore |-> {},
     limitedBefore |-> FALSE, limitedAfter |-> FALSE, enable |-> TRUE,
     reqMethod |-> <<>>, ctrBefore |-> NoEntry, ctrAfter |-> NoEntry,
     trippedBefore |-> {}]

\* the windows in which an evaluation so far has returned True on count > limit
Tripped ==
    last.trippedBefore
        \cup (IF last.path = "counted" /\ Exceeds(last.count, last.limit)
              THEN {last.window} ELSE {})

\* the rate the evaluations are made with, parsed
CfgRate == SplitRate(CHOOSE r \in cfg.args.rate : TRUE)
CfgLockFor == CalculateLockDuration(CHOOSE f \in cfg.args.lock_for : TRUE)
CfgWindow(ts) == GetWindow(cfg.args.value, CfgRate.seconds, ts)
CfgLockKey ==
    LockKey(cfg.args.group, CHOOSE r \in cfg.args.rate : TRUE, cfg.args.value,
            cfg.args.method, now)
CfgCounterKey(ts) ==
    MakeCacheKey(cfg.args.group, CHOOSE r \in cfg.args.rate : TRUE, cfg.args.value,
                 cfg.args.method, TRUE, ts)

\* the arguments are ones with which a call gets as far as the cache
CfgOk ==
    /\ cfg.args.rate # {}
    /\ cfg.args.lock_for # {}
    /\ CfgRate.err = ""
    /\ CfgRate.seconds > 0

InitCommon ==
    /\ now = 0
    /\ cache = <<>>
    /\ limited = FALSE
    /\ last = NoEval
    /\ nEvals = 0
    /\ pureLen = 0
    /\ armed = {}

NoCall ==
    /\ arg = <<>>
    /\ out = <<>>

Init ==
    /\ InitCommon
    /\ NoCall
    /\ pc = <<>>
    /\ ret = <<>>
    /\ \E r \in CfgRates, v \in CfgValues, m \in CfgMethods, l \in CfgLocks,
          fo \in {FALSE} :
          cfg = [args |-> Args(GroupG, {r}, v, m, {l}), fail_open |-> fo]

\* one call of is_ratelimited, start to return, at time now
DoEvaluate(enable, reqMethod, increment, fault) ==
    /\ nEvals < MaxEvals
    /\ \E ok \in {CfgOk} :
       \E r \in {IsRatelimited(cache, limited, cfg.args, enable, cfg.fail_open,
                               reqMethod, increment, now, fault)},
          w \in {IF ok THEN CfgWindow(now) ELSE 0},
          lock_for \in {IF ok THEN CfgLockFor ELSE 0},
          lockBefore \in {IF ok THEN CacheGet(cache, CfgLockKey, now) ELSE NoEntry},
          ckey \in {IF ok THEN CfgCounterKey(now) ELSE <<>>} :
       LET inScope == enable /\ MethodMatch(reqMethod, cfg.args.method)
                      /\ cfg.args.rate # {}
           arms == r.path = "counted" /\ Exceeds(r.count, r.limit) /\ lock_for > 0
           pure == inScope /\ increment /\ fault = "none" /\ pureLen = nEvals
                   /\ (nEvals = 0 \/ w = last.window)
       IN /\ cache' = r.cache
          /\ limited' = r.limited
          /\ last' = [idx |-> nEvals + 1, ts |-> now, window |-> w,
                      increment |-> increment, inScope |-> inScope, fault |-> fault,
                      fail_open |-> cfg.fail_open, lock_for |-> lock_for,
                      path |-> r.path, err |-> r.err, value |-> r.value,
                      count |-> r.count, limit |-> r.limit, ops |-> r.ops,
                      cacheSame |-> (r.cache = cache),
                      lockBefore |-> lockBefore,
                      armedBefore |-> armed, limitedBefore |-> limited,
                      limitedAfter |-> r.limited, enable |-> enable,
                      reqMethod |-> reqMethod,
                      ctrBefore |-> CacheGet(cache, ckey, now),
                      ctrAfter |-> CacheGet(r.cache, ckey, now),
                      trippedBefore |-> Tripped]
          /\ nEvals' = nEvals + 1
          /\ pureLen' = IF pure THEN nEvals + 1 ELSE pureLen
          /\ armed' = IF arms
                      THEN {[idx |-> nEvals + 1, t0 |-> now, d |-> lock_for, w |-> w]}
                      ELSE armed
          /\ UNCHANGED <<now, cfg, pc, ret, arg, out>>

Evaluate ==
    \E enable \in BOOLEAN, reqMethod \in ReqMethods, increment \in BOOLEAN :
        DoEvaluate(enable, reqMethod, increment, "none")

\* the clock advances between evaluations
Tick ==
    /\ now < MaxTime
    /\ now' = now + 1
    /\ UNCHANGED <<cache, limited, cfg, last, nEvals, pureLen, armed, pc, ret, arg, out>>

Next == Evaluate \/ Tick

Spec == Init /\ [][Next]_vars

----------------------------------------------------------------------------
(* Sequential evaluations against a backend whose counter reads can fail *)

InitFault ==
    /\ InitCommon
    /\ NoCall
    /\ pc = <<>>
    /\ ret = <<>>
    /\ \E l \in {0, MaxLimit}, v \in CfgValues, m \in {MethodAll}, d \in {MaxLock},
          fo \in BOOLEAN :
          cfg = [args |-> Args(GroupG, {RateString(l, MaxLock)}, v, m,
                               {IntToStr(d) \o <<"s">>}),
                 fail_open |-> fo]

\* an evaluation during which the backend may fail on the counter read
EvaluateFault ==
    \E reqMethod \in {Post}, increment \in BOOLEAN, fault \in Faults \cup {"none"} :
        DoEvaluate(TRUE, reqMethod, increment, fault)

\* the lock write of an evaluation for another identifier lands on this
\* counter key: keys are concatenations without separators, so the lock key
\* of identifier value ++ str(window) is this counter key (utils.py:103-114)
Corrupt ==
    /\ CacheGet(cache, CfgCounterKey(now), now).kind = "int"
    /\ cache' = CacheSet(cache, CfgCounterKey(now), NoneEntry)
    /\ UNCHANGED <<now, limited, cfg, last, nEvals, pureLen, armed, pc, ret, arg, out>>

NextFault == EvaluateFault \/ Corrupt \/ Tick

SpecFault == InitFault /\ [][NextFault]_vars

----------------------------------------------------------------------------
(* Concurrent get_usage_count calls, increment=True, on one counter key.  *)
(* Each cache operation is one atomic step; the callers' steps interleave. *)

Procs == 1..MaxProcs

UsagePeriods == {2, 3}
UsageValues == {IdU1, IdU3, IdC}

NoRet == [count |-> {}, added |-> FALSE, incremented |-> FALSE]

InitUsage ==
    /\ InitCommon
    /\ NoCall
    /\ \E n \in Procs, p \in UsagePeriods, v \in UsageValues :
          /\ cfg = [args |-> Args(GroupG, {RateString(MaxLimit, p)}, v, MethodAll, {}),
                    fail_open |-> FALSE]
          /\ pc = [i \in 1..n |-> [at |-> "start", key |-> <<>>, ts |-> 0]]
          /\ ret = [i \in 1..n |-> NoRet]

\* utils.py:223-234: the key is built and cache.add is called
UsageAdd(i) ==
    /\ pc[i].at = "start"
    /\ \E key \in {CfgCounterKey(now)} :
       \E a \in {CacheAdd(cache, key, InitialValue(TRUE),
                          CounterTimeout(CfgRate.seconds), now)} :
          /\ cache' = a.cache
          /\ IF a.added
             THEN /\ pc' = [pc EXCEPT ![i] = [at |-> "done", key |-> key, ts |-> now]]
                  /\ ret' = [ret EXCEPT ![i] = [count |-> {InitialValue(TRUE)},
                                                added |-> TRUE, incremented |-> FALSE]]
             ELSE /\ pc' = [pc EXCEPT ![i] = [at |-> "incr", key |-> key, ts |-> now]]
                  /\ ret' = ret
    /\ UNCHANGED <<now, limited, cfg, last, nEvals, pureLen, armed, arg, out>>

\* utils.py:236-240: cache.incr on the key cache.add found present
UsageIncr(i) ==
    /\ pc[i].at = "incr"
    /\ \E r \in {CacheIncr(cache, pc[i].key, now)} :
          /\ cache' = r.cache
          /\ pc' = [pc EXCEPT ![i].at = "done"]
          /\ ret' = [ret EXCEPT ![i] =
                        [count |-> IF r.err = "ValueError" THEN {InitialValue(TRUE)}
                                   ELSE r.value,
                         added |-> FALSE, incremented |-> r.err = ""]]
    /\ UNCHANGED <<now, limited, cfg, last, nEvals, pureLen, armed, arg, out>>

\* the clock advances while the calls run, inside the counting window
UsageTick ==
    /\ now < MaxTime
    /\ CfgWindow(now + 1) = CfgWindow(now)
    /\ now' = now + 1
    /\ UNCHANGED <<cache, limited, cfg, last, nEvals, pureLen, armed, pc, ret, arg, out>>

NextUsage ==
    \/ \E i \in DOMAIN pc : UsageAdd(i)
    \/ \E i \in DOMAIN pc : UsageIncr(i)
    \/ UsageTick

SpecUsage == InitUsage /\ [][NextUsage]_vars

----------------------------------------------------------------------------
(* The pure functions, applied to inputs drawn from bounded sets *)

NoProcs ==
    /\ cfg = [args |-> NoArgs, fail_open |-> FALSE]
    /\ pc = <<>>
    /\ ret = <<>>

PureUnchanged == UNCHANGED <<now, cache, limited, cfg, last, nEvals, pureLen, armed, pc, ret, arg>>

\* _split_rate: a rate string is written from a count, an optional multiplier
\* ({} when omitted) and an optional unit (<<>> when omitted)
RateCounts == {0, 1, 7, 12}
RateMultis == {{}, {0}, {1}, {2}, {10}}
RateUnits == {<<>>, <<"s">>, <<"m">>, <<"h">>, <<"d">>}
RateTuples == {TupleRate(c, p) : c \in {0, 3}, p \in {1, 60}}

WriteRate(count, multi, unit) ==
    StrRate(IntToStr(count) \o <<"/">>
            \o (IF multi = {} THEN <<>> ELSE IntToStr(CHOOSE m \in multi : TRUE))
            \o unit)

InitRate ==
    /\ InitCommon
    /\ NoProcs
    /\ out = <<>>
    /\ \/ \E c \in RateCounts, m \in RateMultis, u \in RateUnits :
             arg = [rate |-> WriteRate(c, m, u), count |-> c, multi |-> m, unit |-> u]
       \/ \E t \in RateTuples :
             arg = [rate |-> t, count |-> t.count, multi |-> {}, unit |-> <<>>]

SplitRateCall ==
    /\ out = <<>>
    /\ out' = <<SplitRate(arg.rate)>>
    /\ PureUnchanged

NextRate == SplitRateCall

SpecRate == InitRate /\ [][NextRate]_vars

\* _get_window: calls for one identifier and period as the clock advances;
\* out holds the last two calls
InitWindow ==
    /\ InitCommon
    /\ NoProcs
    /\ out = <<>>
    /\ \E v \in Identifiers, p \in 1..MaxPeriod : arg = [value |-> v, period |-> p]

GetWindowCall ==
    /\ out' = (IF out = <<>> THEN <<>> ELSE <<out[Len(out)]>>)
                 \o <<[ts |-> now, w |-> GetWindow(arg.value, arg.period, now)]>>
    /\ PureUnchanged

NextWindow == GetWindowCall \/ Tick

SpecWindow == InitWindow /\ [][NextWindow]_vars

\* _make_cache_key: two keys, each built from its own arguments at its own time
KeyMethods ==
    {MethodAll, MethodStr(LowerPost), MethodStr(Post), MethodList(<<LowerPost>>),
     MethodList(<<Get, Post>>), MethodList(<<Post, Get>>)}
KeyRates == {TupleRate(1, 1), TupleRate(11, 1), StrRate(<<"1", "/", "1", "s">>)}
KeyArg(group, rate, value, methods, use_window, ts) ==
    [group |-> group, rate |-> rate, value |-> value, methods |-> methods,
     use_window |-> use_window, ts |-> ts]
KeyArgs(groups, rates, values) ==
    {KeyArg(g, r, v, m, FALSE, 0) : g \in groups, r \in rates, v \in values, m \in KeyMethods}
    \cup UNION {{KeyArg(g, r, v, m, TRUE, t) :
                    g \in groups, r \in rates, v \in values, m \in KeyMethods} : t \in {1, 2}}

InitKey ==
    /\ InitCommon
    /\ NoProcs
    /\ out = <<>>
    /\ \E a \in KeyArgs({GroupG, GroupG1}, {TupleRate(1, 1)}, {IdU}),
          b \in KeyArgs({GroupG, GroupG1}, KeyRates, {IdU, IdU1}) :
          arg = <<a, b>>

KeyOf(a) == MakeCacheKey(a.group, a.rate, a.value, a.methods, a.use_window, a.ts)

MakeCacheKeyCall ==
    /\ out = <<>>
    /\ out' = <<KeyOf(arg[1]), KeyOf(arg[2])>>
    /\ PureUnchanged

NextKey == MakeCacheKeyCall

SpecKey == InitKey /\ [][NextKey]_vars

----------------------------------------------------------------------------
(* Properties of the sequential evaluations *)

\* the lock entry of the evaluated (group, rate, identifier, method filter)
LockNow == CacheGet(cache, CfgLockKey, now)

\* the evaluation touched the lock key only, and only read it
OnlyLockRead(e) ==
    \A i \in DOMAIN e.ops : e.ops[i].op = "get" /\ e.ops[i].key = CfgLockKey

\* C1: from an empty cache, the k-th of a run of incrementing evaluations in
\* one window counts k; evaluations 1..L return False, evaluation L+1 is the
\* first to return True and leaves the lock armed; the evaluation after it,
\* made before the lock's blockUntil, returns True.
C1_CountsUpToLimit ==
    LET L == CfgRate.count IN
    /\ (nEvals >= 1 /\ pureLen = nEvals /\ nEvals <= L + 1) =>
          /\ last.err = ""
          /\ last.path = "counted"
          /\ last.count = {nEvals}
          /\ last.value = (nEvals = L + 1)
          /\ (nEvals = L + 1) =>
                /\ LockNow.kind = "lock"
                /\ LockNow.blocked
                /\ LockNow.block_window =
                      (IF CfgLockFor = 0 THEN {} ELSE {last.ts + CfgLockFor})
    /\ (nEvals = L + 2 /\ pureLen >= L + 1 /\ last.inScope) =>
          \A bw \in last.lockBefore.block_window :
              last.ts < bw => (last.err = "" /\ last.value = TRUE)

C1_Witness ==
    /\ CfgRate.count >= 1
    /\ nEvals = CfgRate.count + 2
    /\ pureLen >= CfgRate.count + 1
    /\ last.inScope
    /\ last.value = TRUE
    /\ \E bw \in last.lockBefore.block_window : last.ts < bw

\* C3: an in-scope evaluation returns by the lock short-circuit exactly when
\* the lock entry it read is blocked with a non-null blockUntil later than the
\* time it read; then it returns True, makes no counter operation and leaves
\* the cache, lock entry included, as it was.
C3_ShortCircuitIffLocked ==
    (last.idx >= 1 /\ last.inScope /\ last.err = "") =>
        /\ (last.path = "locked") <=>
              /\ last.lockBefore.kind = "lock"
              /\ last.lockBefore.blocked
              /\ last.lockBefore.block_window # {}
              /\ \A bw \in last.lockBefore.block_window : last.ts < bw
        /\ (last.path = "locked") =>
              /\ last.value = TRUE
              /\ OnlyLockRead(last)
              /\ last.cacheSame
              /\ LockNow = last.lockBefore

C3_Witness ==
    /\ last.path = "locked"
    /\ last.value = TRUE
    /\ last.lockBefore.block_window # {}

\* C4: after an evaluation at t0 armed a lock of duration d > 0, an evaluation
\* at t0 <= t < t0 + d returns True without touching the counter, also in a
\* later window; an evaluation at t >= t0 + d runs the counter protocol on
\* the counter of the window current at t.
C4_LockPersists ==
    (last.idx >= 1 /\ last.inScope) =>
        \A x \in last.armedBefore :
            /\ (x.t0 <= last.ts /\ last.ts < x.t0 + x.d) =>
                  /\ last.path = "locked"
                  /\ last.value = TRUE
                  /\ OnlyLockRead(last)
                  /\ last.cacheSame
            /\ (last.ts >= x.t0 + x.d) =>
                  /\ last.path = "counted"
                  /\ Len(last.ops) >= 2
                  /\ last.ops[2] = Op("add", CfgCounterKey(last.ts))

C4_Witness ==
    \E x \in last.armedBefore :
        /\ last.inScope
        /\ last.path = "locked"
        /\ last.window # x.w
        /\ last.ts < x.t0 + x.d

\* C6: after an evaluation that compared an available count with the limit,
\* the lock entry is {blocked, blockUntil = ts + lockDuration} (blockUntil
\* null for a zero duration) if count > limit, and null otherwise.
C6_LockEntryDetermined ==
    (last.idx >= 1 /\ last.path = "counted" /\ last.count # {}) =>
        \A n \in last.count :
            IF n > last.limit
            THEN LockNow = [kind |-> "lock", n |-> 0, blocked |-> TRUE,
                            block_window |-> IF CfgLockFor = 0 THEN {}
                                             ELSE {last.ts + CfgLockFor},
                            expires |-> {}]
            ELSE LockNow.kind = "none" /\ ~LockNow.blocked

C6_Witness ==
    /\ last.path = "counted"
    /\ last.lockBefore.kind = "lock"
    /\ \E n \in last.count : n <= last.limit
    /\ LockNow.kind = "none"

----------------------------------------------------------------------------
(* Property of the evaluations against a failing backend *)

----------------------------------------------------------------------------
(* Property of the concurrent get_usage_count calls *)

AllDone == \A i \in DOMAIN pc : pc[i].at = "done"

\* C2: of N concurrent incrementing calls on an absent key exactly one
\* creates it, every other call increments, the calls return 1..N, and the
\* stored counter ends at N.
C2_OneCreates ==
    /\ Cardinality({i \in DOMAIN pc : ret[i].added}) <= 1
    /\ AllDone =>
          /\ Cardinality({i \in DOMAIN pc : ret[i].added}) = 1
          /\ \A i \in DOMAIN pc : ~ret[i].added => ret[i].incremented
          /\ \A i, j \in DOMAIN pc : i # j => ret[i].count # ret[j].count
          /\ UNION {ret[i].count : i \in DOMAIN pc} = 1..Len(pc)
          /\ CacheGet(cache, CfgCounterKey(now), now).n = Len(pc)

C2_Witness ==
    /\ AllDone
    /\ Len(pc) = MaxProcs
    /\ CacheGet(cache, CfgCounterKey(now), now).n = MaxProcs

----------------------------------------------------------------------------
(* Properties of the pure functions *)

\* C7: for p > 1 the window at t is the least w >= t with
\* w mod p = crc32(identifier) mod p, hence t <= w <= t + p - 1; over two
\* successive calls it does not decrease, stays the same while t <= w, and is
\* w + p at the first t past w. For p = 1 it is t.
C7_WindowIsLeastCongruent ==
    LET p == arg.period
        phase == PyMod(Crc32(arg.value), p)
    IN /\ \A i \in DOMAIN out :
             IF p = 1 THEN out[i].w = out[i].ts
             ELSE /\ out[i].ts <= out[i].w
                  /\ out[i].w <= out[i].ts + p - 1
                  /\ PyMod(out[i].w, p) = phase
                  /\ \A v \in out[i].ts..(out[i].w - 1) : PyMod(v, p) # phase
       /\ Len(out) = 2 =>
             /\ out[1].w <= out[2].w
             /\ out[2].ts <= out[1].w => out[2].w = out[1].w
             /\ out[2].ts = out[1].w + 1 => out[2].w = out[1].w + p

C7_Witness ==
    /\ Len(out) = 2
    /\ arg.period > 1
    /\ out[1].ts < out[1].w
    /\ out[2].ts = out[1].w + 1
    /\ out[2].w = out[1].w + arg.period

\* seconds in a unit, as the rate grammar documents them
UnitSeconds(u) ==
    IF u = <<"m">> THEN 60
    ELSE IF u = <<"h">> THEN 3600
    ELSE IF u = <<"d">> THEN 86400
    ELSE 1

\* C10: _split_rate returns a (count, period) pair unchanged, and for a string
\* <count>/<multiplier><unit> returns (count, multiplier * unit seconds), an
\* omitted multiplier counting as 1 and an omitted unit as seconds.
C10_SplitRateValue ==
    \A i \in DOMAIN out :
        /\ out[i].err = ""
        /\ out[i].count = arg.count
        /\ out[i].seconds =
              IF arg.rate.kind = "tuple" THEN arg.rate.period
              ELSE (IF arg.multi = {} THEN 1 ELSE CHOOSE m \in arg.multi : TRUE)
                   * UnitSeconds(arg.unit)

C10_Witness ==
    /\ Len(out) = 1
    /\ arg.rate.kind = "str"
    /\ arg.multi = {10}
    /\ arg.unit = <<"h">>
    /\ out[1].seconds = 36000

\* what a method filter denotes for _method_match: every method, or a set of
\* upper-case names
MethodSet(m) ==
    IF m.kind = "ALL" THEN {<<"*">>}
    ELSE {Upper(m.names[i]) : i \in 1..Len(m.names)}

RateOf(a) == <<SplitRate(a.rate).count, SplitRate(a.rate).seconds>>
WindowOf(a) == GetWindow(a.value, SplitRate(a.rate).seconds, a.ts)

\* C8 (as claimed): two keys are equal exactly when group, rate, identifier,
\* window presence, window value and canonical method set (the token the
\* key builder makes of the filter) are all equal.
C8_KeysEqualIffPartsEqual ==
    Len(out) = 2 =>
        ((out[1] = out[2]) <=>
            /\ arg[1].group = arg[2].group
            /\ RateOf(arg[1]) = RateOf(arg[2])
            /\ arg[1].value = arg[2].value
            /\ arg[1].use_window = arg[2].use_window
            /\ arg[1].use_window => WindowOf(arg[1]) = WindowOf(arg[2])
            /\ MethodToken(arg[1].methods) = MethodToken(arg[2].methods))

\* C9 (as claimed): with group, identifier and window fixed, rates denoting
\* the same (count, period) and method filters denoting the same set of
\* methods give the same key.
C9_KeyStableUnderEquivalentInputs ==
    (/\ Len(out) = 2
     /\ arg[1].group = arg[2].group
     /\ arg[1].value = arg[2].value
     /\ arg[1].use_window = arg[2].use_window
     /\ arg[1].ts = arg[2].ts
     /\ RateOf(arg[1]) = RateOf(arg[2])
     /\ MethodSet(arg[1].methods) = MethodSet(arg[2].methods))
    => out[1] = out[2]

----------------------------------------------------------------------------
(* _split_rate applied to rate strings outside the documented grammar *)

Defects == {"no_count", "no_slash", "unknown_unit", "trailing", "text"}

\* a rate string written with one defect
WriteBadRate(count, multi, unit, defect) ==
    LET c == IntToStr(count)
        m == IF multi = {} THEN <<>> ELSE IntToStr(CHOOSE x \in multi : TRUE)
    IN CASE defect = "no_count" -> <<"/">> \o m \o unit
         [] defect = "no_slash" -> c \o m \o unit
         [] defect = "unknown_unit" -> c \o <<"/">> \o m \o <<"x">>
         [] defect = "trailing" -> c \o <<"/">> \o m \o unit \o <<"/", "5">>
         [] defect = "text" -> <<"a", "b", "c">> \o unit

InitBadRate ==
    /\ InitCommon
    /\ NoProcs
    /\ out = <<>>
    /\ \E c \in RateCounts, m \in RateMultis, u \in RateUnits, d \in Defects :
          arg = [rate |-> StrRate(WriteBadRate(c, m, u, d)), count |-> c,
                 multi |-> m, unit |-> u, defect |-> d]

NextBadRate == SplitRateCall

SpecBadRate == InitBadRate /\ [][NextBadRate]_vars

\* the string is <count>/<multiplier><unit> and nothing else: one or more
\* digits, a slash, zero or more digits, at most one of s, m, h, d
MatchesRateGrammar(s) ==
    LET n1 == DigitPrefixLen(s) IN
    /\ n1 >= 1
    /\ Len(s) >= n1 + 1
    /\ s[n1 + 1] = "/"
    /\ LET rest == SubSeq(s, n1 + 2, Len(s))
           n2 == DigitPrefixLen(rest)
       IN \/ Len(rest) = n2
          \/ Len(rest) = n2 + 1 /\ rest[n2 + 1] \in PeriodUnits

\* C11 (as claimed): parsing a rate string that does not match the grammar
\* in full ends in the configuration error (ImproperlyConfigured), never in a
\* parsed pair and never in another error.
C11_MalformedRateIsConfigError ==
    \A i \in DOMAIN out :
        ~MatchesRateGrammar(arg.rate.s) => out[i].err = "ImproperlyConfigured"

\* C18 (as claimed): every rate string the parser accepts gives count >= 0
\* and a period of at least one second.
C18_AcceptedRateHasPositivePeriod ==
    \A i \in DOMAIN out :
        (arg.rate.kind = "str" /\ out[i].err = "") =>
            (out[i].count >= 0 /\ out[i].seconds > 0)

----------------------------------------------------------------------------
(* is_ratelimited called on successive requests with arguments of every    *)
(* shape: with and without a rate, with and without lock_for, with lock_for *)
(* strings inside and outside the documented grammar                        *)

CallRates == {{}, {RateString(0, MaxLock)}}
CallLocks ==
    {{}, {IntToStr(MaxLock) \o <<"s">>}, {IntToStr(MaxLock) \o <<"x">>},
     {<<"a", "b", "c">>}}

InitCalls ==
    /\ InitCommon
    /\ NoCall
    /\ pc = <<>>
    /\ ret = <<>>
    /\ \E r \in CallRates, l \in CallLocks, m \in CfgMethods, v \in CfgValues :
          cfg = [args |-> Args(GroupG, r, v, m, l), fail_open |-> FALSE]

\* the next call is made on a new request object, which has no limited flag
\* yet (getattr(request, 'limited', False))
NewRequest ==
    /\ limited
    /\ limited' = FALSE
    /\ UNCHANGED <<now, cache, cfg, last, nEvals, pureLen, armed, pc, ret, arg, out>>

NextCalls == Evaluate \/ NewRequest \/ Tick

SpecCalls == InitCalls /\ [][NextCalls]_vars

\* the string is <multiplier><unit> and nothing else: zero or more digits,
\* at most one of s, m, h, d
MatchesLockGrammar(s) ==
    LET n == DigitPrefixLen(s) IN
    \/ Len(s) = n
    \/ Len(s) = n + 1 /\ s[n + 1] \in PeriodUnits

LockGiven == cfg.args.lock_for # {}
LockString == CHOOSE f \in cfg.args.lock_for : TRUE

\* the request's method is outside the configured filter
OutsideFilter(e) ==
    cfg.args.method.kind # "ALL" /\ e.reqMethod \notin MethodSet(cfg.args.method)

\* C12 (as claimed): with a lock-duration string outside the grammar a call
\* that would otherwise be evaluated ends in the configuration error
\* (ImproperlyConfigured) and makes no cache operation.
C12_MalformedLockIsConfigError ==
    (last.idx >= 1 /\ LockGiven /\ ~MatchesLockGrammar(LockString)
        /\ last.enable /\ ~OutsideFilter(last) /\ cfg.args.rate # {}) =>
        (last.err = "ImproperlyConfigured" /\ last.ops = <<>> /\ last.cacheSame)

C15_FlagAccumulates ==
    (last.idx >= 1 /\ last.enable /\ ~OutsideFilter(last) /\ cfg.args.rate # {}
        /\ last.err = "") =>
        last.limitedAfter =
            IF last.increment THEN (last.limitedBefore \/ last.value)
            ELSE last.limitedBefore

----------------------------------------------------------------------------
(* Property of the counter entries the concurrent calls create *)

\* C16: a counter entry created at time t for period p expires at t + p + 5,
\* which is later than the end w of its window (w <= t + p - 1): the entry is
\* live at every time from t to w.
C16_CounterOutlivesWindow ==
    \A i \in DOMAIN pc :
        ret[i].added =>
            LET t == pc[i].ts
                p == CfgRate.seconds
                w == GetWindow(cfg.args.value, p, t)
            IN /\ pc[i].key \in DOMAIN cache
               /\ cache[pc[i].key].expires = {t + p + 5}
               /\ w <= t + p - 1
               /\ \A e \in cache[pc[i].key].expires : e > w
               /\ \A ts \in t..w : Live(cache, pc[i].key, ts)

C16_Witness ==
    \E i \in DOMAIN pc :
        /\ ret[i].added
        /\ pc[i].ts > 0
        /\ pc[i].ts < GetWindow(cfg.args.value, CfgRate.seconds, pc[i].ts)
        /\ now = GetWindow(cfg.args.value, CfgRate.seconds, pc[i].ts)
        /\ Live(cache, pc[i].key, now)

----------------------------------------------------------------------------
(* Property of the counter read when the stored value cannot be used *)

\* C17: when the counter key exists at cache.add and the increment fails
\* (the value is not a number, or the key is gone by then), an incrementing
\* evaluation raises nothing and counts 1; a non-incrementing evaluation on
\* an existing counter reports the stored value and leaves it as it was.
C17_IncrFailureFallsBack ==
    (last.idx >= 1 /\ last.path = "counted") =>
        /\ (last.increment /\ last.ctrBefore.kind # "absent"
               /\ \/ last.ctrBefore.kind # "int" /\ last.fault = "none"
                  \/ last.fault = "vanish") =>
              (last.err = "" /\ last.count = {1})
        /\ (~last.increment /\ last.ctrBefore.kind = "int" /\ last.fault = "none") =>
              /\ last.err = ""
              /\ last.count = {last.ctrBefore.n}
              /\ last.ctrAfter = last.ctrBefore

C17_Witness ==
    /\ last.idx >= 1
    /\ last.path = "counted"
    /\ last.increment
    /\ last.ctrBefore.kind = "none"
    /\ last.fault = "none"
    /\ last.count = {1}
    /\ last.err = ""

----------------------------------------------------------------------------
(* Property of the evaluations that follow a limited one in its window *)

\* C20: once an evaluation in a window has returned True on count > limit,
\* every later incrementing evaluation in that window returns True, by the
\* lock short-circuit or on a count still above the limit, whatever the lock
\* duration; and the stored counter of the window does not decrease.
C20_LimitedStaysLimitedInWindow ==
    (last.idx >= 1 /\ last.inScope /\ last.increment
        /\ last.window \in last.trippedBefore) =>
        /\ last.err = ""
        /\ last.value = TRUE
        /\ \/ last.path = "locked"
           \/ last.path = "counted" /\ Exceeds(last.count, last.limit)
        /\ last.ctrBefore.kind = "int"
        /\ last.ctrAfter.kind = "int"
        /\ last.ctrAfter.n >= last.ctrBefore.n

C20_Witness ==
    /\ last.idx >= 1
    /\ last.inScope
    /\ last.increment
    /\ last.window \in last.trippedBefore
    /\ last.path = "counted"
    /\ last.lock_for > 0
    /\ last.lockBefore.kind = "lock"
    /\ last.value = TRUE
    /\ last.ctrAfter.n > last.ctrBefore.n

----------------------------------------------------------------------------
(* Concurrent is_ratelimited evaluations, increment=True, for one (group,   *)
(* rate, identifier, method filter). Each cache operation is one atomic     *)
(* step; the steps of the evaluations interleave and the clock advances.    *)

ConcPeriods == {1, 2}

ConcNoRet == [value |-> FALSE, path |-> "none"]

ConcAt(at, ts, key, count, armedAtStart) ==
    [at |-> at, ts |-> ts, key |-> key, count |-> count,
     armedAtStart |-> armedAtStart]

InitConc ==
    /\ InitCommon
    /\ NoCall
    /\ \E n \in Procs, p \in ConcPeriods :
          /\ cfg = [args |-> Args(GroupG, {RateString(MaxLimit, p)}, IdU1, MethodAll,
                                  {IntToStr(MaxLock) \o <<"s">>}),
                    fail_open |-> FALSE]
          /\ pc = [i \in 1..n |-> ConcAt("start", 0, <<>>, {}, {})]
          /\ ret = [i \in 1..n |-> ConcNoRet]

\* utils.py:155-169: the lock entry is read, then the time; a live lock
\* ends the evaluation
ConcGetLock(i) ==
    /\ pc[i].at = "start"
    /\ IF Locked(CacheGet(cache, CfgLockKey, now), now)
       THEN /\ pc' = [pc EXCEPT ![i] = ConcAt("done", now, <<>>, {}, armed)]
            /\ ret' = [ret EXCEPT ![i] = [value |-> TRUE, path |-> "locked"]]
       ELSE /\ pc' = [pc EXCEPT ![i] = ConcAt("add", now, <<>>, {}, armed)]
            /\ ret' = ret
    /\ UNCHANGED <<now, cache, limited, cfg, last, nEvals, pureLen, armed, arg, out>>

\* utils.py:229-234: the counter key of the window current now, and cache.add
ConcAdd(i) ==
    /\ pc[i].at = "add"
    /\ \E key \in {CfgCounterKey(now)} :
       \E a \in {CacheAdd(cache, key, InitialValue(TRUE),
                          CounterTimeout(CfgRate.seconds), now)} :
          /\ cache' = a.cache
          /\ pc' = [pc EXCEPT ![i] =
                       IF a.added
                       THEN ConcAt("set", @.ts, key, {InitialValue(TRUE)}, @.armedAtStart)
                       ELSE ConcAt("incr", @.ts, key, {}, @.armedAtStart)]
    /\ UNCHANGED <<now, limited, cfg, last, nEvals, pureLen, armed, ret, arg, out>>

\* utils.py:236-240: cache.incr on the key cache.add found present
ConcIncr(i) ==
    /\ pc[i].at = "incr"
    /\ \E r \in {CacheIncr(cache, pc[i].key, now)} :
          /\ cache' = r.cache
          /\ pc' = [pc EXCEPT ![i].at = "set",
                              ![i].count = IncrCount(r, InitialValue(TRUE))]
    /\ UNCHANGED <<now, limited, cfg, last, nEvals, pureLen, armed, ret, arg, out>>

\* utils.py:174-197: the verdict, and the cache.set of the lock entry
ConcSet(i) ==
    /\ pc[i].at = "set"
    /\ \E r \in {Decide(limited, CfgLockKey, CfgLockFor,
                        [cache |-> cache, count |-> pc[i].count,
                         limit |-> CfgRate.count, time_left |-> 0, ops |-> <<>>],
                        cfg.fail_open, TRUE, pc[i].ts, <<>>)} :
          /\ cache' = r.cache
          /\ limited' = r.limited
          /\ ret' = [ret EXCEPT ![i] = [value |-> r.value, path |-> r.path]]
          /\ armed' = IF Exceeds(r.count, r.limit) /\ CfgLockFor > 0
                      THEN armed \cup {[idx |-> i, t0 |-> pc[i].ts, d |-> CfgLockFor,
                                        w |-> 0]}
                      ELSE armed
    /\ pc' = [pc EXCEPT ![i].at = "done"]
    /\ UNCHANGED <<now, cfg, last, nEvals, pureLen, arg, out>>

NextConc ==
    \/ \E i \in DOMAIN pc : ConcGetLock(i)
    \/ \E i \in DOMAIN pc : ConcAdd(i)
    \/ \E i \in DOMAIN pc : ConcIncr(i)
    \/ \E i \in DOMAIN pc : ConcSet(i)
    \/ Tick

SpecConc == InitConc /\ [][NextConc]_vars

\* C19 (as claimed): once an evaluation has written an armed lock with
\* blockUntil = T, the lock entry stays armed until T, and every evaluation
\* that starts (reads the lock) after the write and before T returns True.
C19_ArmedLockHoldsUntilT ==
    /\ \A x \in armed :
          now < x.t0 + x.d => Locked(CacheGet(cache, CfgLockKey, now), now)
    /\ \A i \in DOMAIN pc :
          pc[i].at = "done" =>
              \A x \in pc[i].armedAtStart :
                  pc[i].ts < x.t0 + x.d => ret[i].value = TRUE

====
